---- MODULE Spec2Model ----
(***************************************************************************)
(* State-machine model of the sasview GUI data registry (DataManager),     *)
(* the loader plug-in's dataset naming (Plugin.create_data / get_data),    *)
(* the plug-in base class (PluginBase) and the file converter panel        *)
(* (ask_frame_range, extract_ascii_data, on_convert).                      *)
(*                                                                         *)
(* Python dictionaries are functions whose DOMAIN is the key set.          *)
(* DataState objects live in a heap indexed by object reference, so that   *)
(* "the same object" and "a fresh object" are statements about references. *)
(* Python strings that the code slices or concatenates are sequences of    *)
(* one-character strings.                                                  *)
(***************************************************************************)
EXTENDS Integers, Sequences, FiniteSets, TLC

VARIABLES
    stored_data,      \* DataManager.stored_data : id -> reference of a DataState
    _selected_data,   \* DataManager._selected_data : id -> reference of a DataState
    has_selected,     \* TRUE while the instance attribute _selected_data exists
    heap,             \* the DataState objects : reference -> [data, theory_list]
    next_ref,         \* the reference the next DataState(...) gets
    call,             \* the DataManager method that ran last, with its arguments
    err,              \* the exception that call ended with, "none" when it returned
    added,            \* history: id -> dataset last passed to add_data, removed
                      \* when the id is passed to delete_data / delete_by_id
    data_name_dict,   \* DataManager.data_name_dict : base name -> collision counter
    renamed,          \* history: the rename calls, <<input name, label returned>>
    plugin_name_dict, \* Plugin.data_name_dict of the loader plug-in
    created,          \* history: the datasets Plugin.create_data returned, in order
    load_log,         \* what the last Plugin.get_data did, file by file
    data_type,        \* ConverterPanel.data_type
    fr_pc,            \* ask_frame_range: "idle", "asking" (dialog shown),
                      \* "returned" (after OK) or "cancelled" (after Cancel)
    n_frames,         \* ask_frame_range: its argument
    dlg,              \* the FrameSelectDialog: the text of its three inputs and
                      \* its single-file button, as last confirmed
    loc,              \* ask_frame_range: its local variables
    status,           \* the status of the StatusEvent the running call posted
                      \* last, "" before its first
    result,           \* the dictionary the call returned
    sub_menu,         \* PluginBase.sub_menu : the plug-in's name
    standalone,       \* PluginBase.standalone
    parent,           \* PluginBase.parent, None until get_panels
    _always_active,   \* PluginBase._always_active
    hook,             \* the PluginBase method that ran last, with its arguments
    hook_ret,         \* what that call returned or raised
    ascii_call,       \* the last extract_ascii_data: its file name and the
                      \* lines of the file
    ascii_ret,        \* what that call returned or raised
    cv_pc,            \* on_convert: "idle", "dialog" (inside ask_frame_range),
                      \* the return it left through ("ret_validate",
                      \* "ret_except", "ret_bsl", "ret_cancel", "ret_end")
                      \* or "raised" when an exception left it
    cv_raised,        \* on_convert: the exception that left it, "" without one
    written,          \* on_convert: the files the writer wrote, in order; each
                      \* with its name and the frames it holds
    cv_call,          \* the last on_convert: the paths it found set and what
                      \* the input files held
    files_read,       \* on_convert: the inputs it opened, "q" and "iq"
    title,            \* ConverterPanel.title, None or a text
    sample_ID,        \* ConverterPanel.sample.ID, None or a text
    radio_btn,        \* the name of the selected data type radio button
    q_path,           \* the path shown in q_input, "" when empty
    q_enabled,        \* q_input is enabled
    radiation_enabled, \* radiation_input is enabled
    metadata_enabled, \* metadata_section is enabled
    cansas_call,      \* the last convert_to_cansas: its arguments
    cansas_written    \* the files that call wrote, in order

dmvars == <<stored_data, _selected_data, has_selected, heap, next_ref,
            call, err, added>>

rnvars == <<data_name_dict, renamed>>

plvars == <<plugin_name_dict, created, load_log>>

frvars == <<data_type, fr_pc, n_frames, dlg, loc, status, result>>

csvars == <<cansas_call, cansas_written>>

cvvars == <<cv_pc, cv_raised, written, cv_call, files_read, title, sample_ID>>

uivars == <<radio_btn, q_path, q_enabled, radiation_enabled, metadata_enabled>>

asvars == <<ascii_call, ascii_ret>>

pbvars == <<sub_menu, standalone, parent, _always_active, hook, hook_ret>>

-----------------------------------------------------------------------------
(* Bounds *)

NumIds == 2        \* dataset identifiers 1..NumIds
MaxList == 2       \* longest argument list of a call
MaxRef == 3        \* DataState objects created in one run

Ids == 1..NumIds
Names == {"Foo", "Bar"}
Theories == {"th1"}

\* a dataset object: its id, its display name
Datasets == [id : Ids, name : Names]

SeqsUpTo(S, n) == UNION {[1..k -> S] : k \in 0..n}

-----------------------------------------------------------------------------
(* Python dict primitives *)

\* {}
EmptyDict == <<>>

\* d[k] = v
Put(d, k, v) == [x \in (DOMAIN d) \cup {k} |-> IF x = k THEN v ELSE d[x]]

\* del d[k]   (k in d)
Del(d, k) == [x \in (DOMAIN d) \ {k} |-> d[x]]

\* the values of a sequence
Elems(s) == {s[i] : i \in 1..Len(s)}

-----------------------------------------------------------------------------
(* DataState (sans.guiframe.data_state) *)

\* DataState(data): wraps one dataset, no theory yet
DataState(data) == [data |-> data, theory_list |-> {}]

\* data_state.set_theory(theory): records one more derived theory
set_theory(data_state, theory) ==
    [data_state EXCEPT !.theory_list = @ \cup {theory}]

-----------------------------------------------------------------------------
(* DataManager: the loops of the methods, as functions of the registry     *)
(* m = [stored, sel, heap, next]                                           *)

Registry == [stored |-> stored_data, sel |-> _selected_data,
             heap |-> heap, next |-> next_ref]

\* body of the for loop of add_data, for one element of data_list
AddOneFresh(m, data) ==
    LET r == m.next IN
    [stored |-> Put(m.stored, data.id, r),
     sel    |-> Put(m.sel, data.id, r),
     heap   |-> Put(m.heap, r, DataState(data)),
     next   |-> m.next + 1]

AddOneKeepOld(m, data) ==
    IF data.id \in DOMAIN m.stored
    THEN [m EXCEPT !.sel = Put(m.sel, data.id, m.stored[data.id])]
    ELSE AddOneFresh(m, data)

AddOne(m, data) ==
    IF data.id \in DOMAIN m.stored
    THEN LET r == m.stored[data.id] IN
         [m EXCEPT !.heap = Put(m.heap, r, [m.heap[r] EXCEPT !.data = data]),
                   !.sel  = Put(m.sel, data.id, r)]
    ELSE LET r == m.next IN
         [stored |-> Put(m.stored, data.id, r),
          sel    |-> Put(m.sel, data.id, r),
          heap   |-> Put(m.heap, r, DataState(data)),
          next   |-> m.next + 1]

RECURSIVE AddLoop(_, _)
AddLoop(m, data_list) ==
    IF data_list = <<>> THEN m
    ELSE AddLoop(AddOne(m, Head(data_list)), Tail(data_list))

\* the for loop of get_by_id, started from the selection sel
RECURSIVE GetByIdLoop(_, _, _)
GetByIdLoop(stored, sel, id_list) ==
    IF id_list = <<>> THEN sel
    ELSE LET id == Head(id_list) IN
         GetByIdLoop(stored,
                     IF id \in DOMAIN stored THEN Put(sel, id, stored[id]) ELSE sel,
                     Tail(id_list))

\* the selection get_by_id starts its loop from
GetByIdStartKeep(sel) == sel

GetByIdStart(sel) == EmptyDict

\* the two nested loops of get_by_name: every stored entry whose dataset
\* name is one of name_list is selected
GetByNameSel(stored, hp, name_list) ==
    LET hit == {id \in DOMAIN stored : hp[stored[id]].data.name \in Elems(name_list)}
    IN  [id \in hit |-> stored[id]]

\* the for loop of delete_by_id; r = [stored, sel, err], the loop stops at
\* the first exception
DelIdSelKeep(sel, id) == sel

DelIdSel(sel, id) == IF id \in DOMAIN sel THEN Del(sel, id) ELSE sel

RECURSIVE DeleteByIdLoop(_, _, _, _)
DeleteByIdLoop(stored, sel, has_sel, id_list) ==
    IF id_list = <<>> THEN [stored |-> stored, sel |-> sel, err |-> "none"]
    ELSE LET id == Head(id_list)
             st == IF id \in DOMAIN stored THEN Del(stored, id) ELSE stored
         IN  IF ~has_sel
             THEN [stored |-> st, sel |-> sel, err |-> "AttributeError"]
             ELSE DeleteByIdLoop(st, DelIdSel(sel, id), has_sel, Tail(id_list))

\* the DataState objects still referenced once entries have been deleted:
\* an object that neither dictionary holds any more is released
Live(hp, stored, sel) ==
    [r \in {x \in DOMAIN hp : \/ \E id \in DOMAIN stored : stored[id] = x
                              \/ \E id \in DOMAIN sel : sel[id] = x} |-> hp[r]]

-----------------------------------------------------------------------------
(* DataManager: one action per method *)

NoCall == [op |-> "init", data_list |-> <<>>, id_list |-> <<>>,
           name_list |-> <<>>, data_id |-> 0, theory |-> ""]

DMInit ==
    /\ stored_data = EmptyDict
    /\ _selected_data = EmptyDict
    /\ has_selected = TRUE
    /\ heap = EmptyDict
    /\ next_ref = 1
    /\ call = NoCall
    /\ err = "none"
    /\ added = EmptyDict

RnInit ==
    /\ data_name_dict = EmptyDict
    /\ renamed = <<>>

PlInit ==
    /\ plugin_name_dict = EmptyDict
    /\ created = <<>>
    /\ load_log = [flag |-> TRUE, path |-> <<>>, log |-> <<>>,
                   output |-> <<>>, load_error |-> FALSE]

\* the history of add_data: the last dataset of data_list for each id
RECURSIVE NoteAdded(_, _)
NoteAdded(a, data_list) ==
    IF data_list = <<>> THEN a
    ELSE NoteAdded(Put(a, Head(data_list).id, Head(data_list)), Tail(data_list))

Forget(a, ids) == [x \in (DOMAIN a) \ ids |-> a[x]]

add_data(data_list) ==
    \E m \in {AddLoop([Registry EXCEPT !.sel = EmptyDict], data_list)} :
    /\ m.next <= MaxRef + 1
    /\ stored_data' = m.stored
    /\ _selected_data' = m.sel
    /\ has_selected' = TRUE
    /\ heap' = Live(m.heap, m.stored, m.sel)
    /\ next_ref' = m.next
    /\ UNCHANGED <<rnvars, plvars, frvars, pbvars, asvars, cvvars, csvars, uivars>>
    /\ call' = [NoCall EXCEPT !.op = "add_data", !.data_list = data_list]
    /\ err' = "none"
    /\ added' = NoteAdded(added, data_list)

get_by_id(id_list) ==
    LET sel == GetByIdLoop(stored_data, GetByIdStart(_selected_data), id_list) IN
    /\ _selected_data' = sel
    /\ has_selected' = TRUE
    /\ UNCHANGED <<rnvars, plvars, frvars, pbvars, asvars, cvvars, csvars, uivars>>
    /\ call' = [NoCall EXCEPT !.op = "get_by_id", !.id_list = id_list]
    /\ err' = "none"
    /\ heap' = Live(heap, stored_data, sel)
    /\ UNCHANGED <<stored_data, next_ref, added>>

get_by_name(name_list) ==
    LET sel == GetByNameSel(stored_data, heap, name_list) IN
    /\ _selected_data' = sel
    /\ has_selected' = TRUE
    /\ UNCHANGED <<rnvars, plvars, frvars, pbvars, asvars, cvvars, csvars, uivars>>
    /\ call' = [NoCall EXCEPT !.op = "get_by_name", !.name_list = name_list]
    /\ err' = "none"
    /\ heap' = Live(heap, stored_data, sel)
    /\ UNCHANGED <<stored_data, next_ref, added>>

\* an append_theory that gives the theory to every registered DataState
append_theoryAll(data_id, theory) ==
    /\ heap' = [r \in DOMAIN heap |->
                   IF data_id \in DOMAIN stored_data
                      /\ \E id \in DOMAIN stored_data : stored_data[id] = r
                   THEN set_theory(heap[r], theory) ELSE heap[r]]
    /\ UNCHANGED <<rnvars, plvars, frvars, pbvars, asvars, cvvars, csvars, uivars>>
    /\ call' = [NoCall EXCEPT !.op = "append_theory", !.data_id = data_id,
                              !.theory = theory]
    /\ err' = "none"
    /\ UNCHANGED <<stored_data, _selected_data, has_selected, next_ref, added>>

append_theory(data_id, theory) ==
    /\ heap' = IF data_id \in DOMAIN stored_data
               THEN Put(heap, stored_data[data_id],
                        set_theory(heap[stored_data[data_id]], theory))
               ELSE heap
    /\ UNCHANGED <<rnvars, plvars, frvars, pbvars, asvars, cvvars, csvars, uivars>>
    /\ call' = [NoCall EXCEPT !.op = "append_theory", !.data_id = data_id,
                              !.theory = theory]
    /\ err' = "none"
    /\ UNCHANGED <<stored_data, _selected_data, has_selected, next_ref, added>>

\* "del self._selected_data" removes the attribute itself; reading it
\* afterwards raises AttributeError until a method assigns it again
delete_data(data_id) ==
    /\ stored_data' = IF data_id \in DOMAIN stored_data
                      THEN Del(stored_data, data_id) ELSE stored_data
    /\ IF ~has_selected
       THEN /\ err' = "AttributeError"
            /\ UNCHANGED <<_selected_data, has_selected>>
       ELSE /\ err' = "none"
            /\ IF data_id \in DOMAIN _selected_data
               THEN /\ has_selected' = FALSE
                    /\ _selected_data' = EmptyDict
               ELSE UNCHANGED <<_selected_data, has_selected>>
    /\ UNCHANGED <<rnvars, plvars, frvars, pbvars, asvars, cvvars, csvars, uivars>>
    /\ call' = [NoCall EXCEPT !.op = "delete_data", !.data_id = data_id]
    /\ added' = Forget(added, {data_id})
    /\ heap' = Live(heap, stored_data', _selected_data')
    /\ UNCHANGED next_ref

delete_by_id(id_list) ==
    \E r \in {DeleteByIdLoop(stored_data, _selected_data, has_selected, id_list)} :
    /\ stored_data' = r.stored
    /\ _selected_data' = r.sel
    /\ err' = r.err
    /\ UNCHANGED <<rnvars, plvars, frvars, pbvars, asvars, cvvars, csvars, uivars>>
    /\ call' = [NoCall EXCEPT !.op = "delete_by_id", !.id_list = id_list]
    /\ added' = Forget(added, Elems(id_list))
    /\ heap' = Live(heap, r.stored, r.sel)
    /\ UNCHANGED <<has_selected, next_ref>>

\* The outer loop takes the names in order, the inner loop the stored
\* entries in the dictionary's iteration order (any order).  The first
\* entry whose name matches ends the call: "del self._selected_data[id]"
\* raises AttributeError without the attribute and KeyError when id is not
\* selected; otherwise it removes id from the selection and the next
\* statement, "del self.stored_data[data.id]", raises NameError because
\* no name "data" is bound in the method or the module.
Matches(name) == {id \in DOMAIN stored_data : heap[stored_data[id]].data.name = name}

FirstMatching(name_list) ==
    IF \E i \in 1..Len(name_list) : Matches(name_list[i]) # {}
    THEN Matches(name_list[CHOOSE i \in 1..Len(name_list) :
                     /\ Matches(name_list[i]) # {}
                     /\ \A j \in 1..(i-1) : Matches(name_list[j]) = {}])
    ELSE {}

delete_by_name(name_list) ==
    /\ \/ /\ FirstMatching(name_list) = {}
          /\ err' = "none"
          /\ UNCHANGED _selected_data
       \/ \E id \in FirstMatching(name_list) :
            IF ~has_selected
            THEN err' = "AttributeError" /\ UNCHANGED _selected_data
            ELSE IF id \notin DOMAIN _selected_data
            THEN err' = "KeyError" /\ UNCHANGED _selected_data
            ELSE err' = "NameError" /\ _selected_data' = Del(_selected_data, id)
    /\ UNCHANGED <<rnvars, plvars, frvars, pbvars, asvars, cvvars, csvars, uivars>>
    /\ call' = [NoCall EXCEPT !.op = "delete_by_name", !.name_list = name_list]
    /\ heap' = Live(heap, stored_data, _selected_data')
    /\ UNCHANGED <<stored_data, has_selected, next_ref, added>>

\* get_selected_data(): returns the attribute _selected_data, which no
\* longer exists once delete_data has removed it
get_selected_data ==
    /\ err' = IF has_selected THEN "none" ELSE "AttributeError"
    /\ call' = [NoCall EXCEPT !.op = "get_selected_data"]
    /\ UNCHANGED <<stored_data, _selected_data, has_selected, heap, next_ref, added>>
    /\ UNCHANGED <<rnvars, plvars, frvars, pbvars, asvars, cvvars, csvars, uivars>>

DMNext ==
    \/ \E data_list \in SeqsUpTo(Datasets, MaxList) : add_data(data_list)
    \/ \E id_list \in SeqsUpTo(Ids, MaxList) : get_by_id(id_list)
    \/ \E name_list \in SeqsUpTo(Names, MaxList) : get_by_name(name_list)
    \/ \E data_id \in Ids, theory \in Theories : append_theory(data_id, theory)
    \/ \E data_id \in Ids : delete_data(data_id)
    \/ \E id_list \in SeqsUpTo(Ids, MaxList) : delete_by_id(id_list)
    \/ \E name_list \in SeqsUpTo(Names, MaxList) : delete_by_name(name_list)
    \/ get_selected_data

\* a Python variable that may be unbound or None: <<>>, or <<v>> for the value v
None == <<>>

Some(v) == <<v>>

NoLocals == [valid_input |-> FALSE, first_frame |-> None, last_frame |-> None,
             increment |-> None, single_file |-> TRUE, msg |-> ""]

NoDialog == [first_input |-> <<>>, last_input |-> <<>>, increment_input |-> <<>>,
             single_btn |-> TRUE]

NoResult == [frames |-> <<>>, inc |-> None, file |-> TRUE]

FrInit ==
    /\ data_type = "ascii"
    /\ fr_pc = "idle"
    /\ n_frames = 0
    /\ dlg = NoDialog
    /\ loc = NoLocals
    /\ status = ""
    /\ result = NoResult

\* a plug-in as PluginBase() constructs it
PbInit ==
    /\ sub_menu = "Test_plugin"
    /\ standalone = TRUE
    /\ parent = None
    /\ _always_active = FALSE
    /\ hook = [name |-> "__init__", args |-> <<"Test_plugin", TRUE>>]
    /\ hook_ret = [raised |-> "", msg |-> <<>>, value |-> "None"]
\* no file read yet
AsInit ==
    /\ ascii_call = [filename |-> "", lines |-> <<>>]
    /\ ascii_ret = [raised |-> "", msg |-> <<>>, value |-> <<>>]
\* the converter panel before the first click on Convert
NoConvert == [paths |-> [q |-> FALSE, iq |-> FALSE, output |-> FALSE],
              ex |-> [kind |-> "none"]]

CvInit ==
    /\ cv_pc = "idle"
    /\ cv_raised = ""
    /\ written = <<>>
    /\ cv_call = NoConvert
    /\ files_read = {}
    /\ title = None
    /\ sample_ID = Some("")

\* the widgets as _do_layout creates them: the first radio button of the
\* group selected, no path chosen, everything enabled
UiInit ==
    /\ radio_btn = "ascii"
    /\ q_path = ""
    /\ q_enabled = TRUE
    /\ radiation_enabled = TRUE
    /\ metadata_enabled = TRUE
\* no convert_to_cansas yet
CsInit ==
    /\ cansas_call = [frame_data |-> <<>>, filename |-> <<>>, single_file |-> TRUE]
    /\ cansas_written = <<>>

vars == <<dmvars, rnvars, plvars, frvars, pbvars, asvars, cvvars, csvars, uivars>>

Init == DMInit /\ RnInit /\ PlInit /\ FrInit /\ PbInit /\ AsInit /\ CvInit /\ CsInit /\ UiInit

Spec == Init /\ [][DMNext]_vars

-----------------------------------------------------------------------------
(* Properties of the DataManager *)

IdsOf(data_list) == {data_list[i].id : i \in 1..Len(data_list)}

\* the last dataset of data_list that carries identifier id
LastOf(data_list, id) ==
    data_list[CHOOSE i \in 1..Len(data_list) :
                 /\ data_list[i].id = id
                 /\ \A j \in (i+1)..Len(data_list) : data_list[j].id # id]

NameOf(hp, stored, id) == hp[stored[id]].data.name

\* C1: after any sequence of DataManager operations every identifier
\* present in _selected_data is also present in stored_data.
C1_SelectedWithinStored ==
    has_selected => (DOMAIN _selected_data) \subseteq (DOMAIN stored_data)

\* C1 witness: a delete operation has run and a non-empty selection is left
C1_Witness ==
    /\ call.op = "delete_by_id"
    /\ call.id_list # <<>>
    /\ Elems(call.id_list) \cap DOMAIN added = {}
    /\ has_selected
    /\ _selected_data # EmptyDict

\* C2: get_by_id returns every requested identifier that was passed to
\* add_data and not since passed to a delete operation, mapped to a
\* DataState holding the dataset most recently added under it.
C2_AddedIsRetrievable ==
    call.op = "get_by_id" =>
        \A id \in Elems(call.id_list) \cap DOMAIN added :
            /\ id \in DOMAIN _selected_data
            /\ heap[_selected_data[id]].data = added[id]

\* C2 witness: get_by_id was asked for an added identifier and for one that
\* is not registered, after the added one had been registered again with
\* theory attached in between
C2_Witness ==
    /\ call.op = "get_by_id"
    /\ \E id \in Elems(call.id_list) :
          /\ id \in DOMAIN added
          /\ heap[_selected_data[id]].theory_list # {}
    /\ \E id \in Elems(call.id_list) : id \notin DOMAIN stored_data

\* C3 (as claimed): delete_by_id or delete_data of identifiers that are not
\* in the registry raises nothing and leaves stored_data and _selected_data
\* as they were.
C3_DeleteAbsentIsNoOp ==
    [][ ( \/ /\ call'.op = "delete_by_id"
             /\ Elems(call'.id_list) \cap DOMAIN stored_data = {}
          \/ /\ call'.op = "delete_data"
             /\ call'.data_id \notin DOMAIN stored_data )
        => /\ err' = "none"
           /\ stored_data' = stored_data
           /\ _selected_data' = _selected_data
           /\ has_selected' = has_selected ]_dmvars

\* C4 (as claimed): delete_by_name returns normally, leaves no entry whose
\* dataset name is in name_list in stored_data or _selected_data, and
\* leaves every other entry unchanged.
C4_DeleteByNameDeletes ==
    [][ call'.op = "delete_by_name" =>
        LET gone == {id \in DOMAIN stored_data :
                        NameOf(heap, stored_data, id) \in Elems(call'.name_list)}
        IN  /\ err' = "none"
            /\ DOMAIN stored_data' = (DOMAIN stored_data) \ gone
            /\ DOMAIN _selected_data' = (DOMAIN _selected_data) \ gone
            /\ \A id \in DOMAIN stored_data' :
                  /\ stored_data'[id] = stored_data[id]
                  /\ heap'[stored_data'[id]] = heap[stored_data[id]]
            /\ \A id \in DOMAIN _selected_data' :
                  _selected_data'[id] = _selected_data[id] ]_dmvars

\* C5 (as claimed): after delete_by_id(id_list) no identifier of id_list is
\* a key of stored_data or of _selected_data, and every entry under another
\* identifier is unchanged.
C5_DeleteByIdDeletes ==
    [][ call'.op = "delete_by_id" =>
        LET gone == Elems(call'.id_list)
        IN  /\ DOMAIN stored_data' = (DOMAIN stored_data) \ gone
            /\ has_selected' = has_selected
            /\ DOMAIN _selected_data' = (DOMAIN _selected_data) \ gone
            /\ \A id \in DOMAIN stored_data' :
                  /\ stored_data'[id] = stored_data[id]
                  /\ heap'[stored_data'[id]] = heap[stored_data[id]]
            /\ \A id \in DOMAIN _selected_data' :
                  _selected_data'[id] = _selected_data[id] ]_dmvars

\* C6: add_data keeps the DataState (and its theory) of an identifier that
\* is already registered and replaces its data by the dataset passed last
\* for it, so the key set grows by the unregistered identifiers only; an
\* unregistered identifier gets a fresh DataState wrapping its dataset.
C6_AddOverwrites ==
    [][ call'.op = "add_data" =>
        LET L == call'.data_list
        IN  /\ DOMAIN stored_data' = (DOMAIN stored_data) \cup IdsOf(L)
            /\ \A id \in IdsOf(L) :
                  IF id \in DOMAIN stored_data
                  THEN /\ stored_data'[id] = stored_data[id]
                       /\ heap'[stored_data'[id]] =
                             [heap[stored_data[id]] EXCEPT !.data = LastOf(L, id)]
                  ELSE /\ stored_data'[id] \notin DOMAIN heap
                       /\ stored_data'[id] >= next_ref
                       /\ heap'[stored_data'[id]] = DataState(LastOf(L, id))
            /\ \A id \in (DOMAIN stored_data) \ IdsOf(L) :
                  /\ stored_data'[id] = stored_data[id]
                  /\ heap'[stored_data'[id]] = heap[stored_data[id]] ]_dmvars

\* C6 witness: add_data has just registered two identifiers, one of them
\* on a DataState that already carries theory (so it was registered
\* before), the other on a DataState without theory
C6_Witness ==
    /\ call.op = "add_data"
    /\ \E id \in IdsOf(call.data_list) :
          heap[stored_data[id]].theory_list # {}
    /\ \E id \in IdsOf(call.data_list) :
          heap[stored_data[id]].theory_list = {}

\* C7: add_data, get_by_id and get_by_name rebuild the selection from
\* nothing: its keys are the identifiers of the datasets passed, the
\* requested identifiers that are registered, the registered identifiers
\* whose dataset name was requested; each maps to the DataState object that
\* stored_data holds for it.
C7_SelectionRebuilt ==
    [][ /\ call'.op = "add_data" =>
              DOMAIN _selected_data' = IdsOf(call'.data_list)
        /\ call'.op = "get_by_id" =>
              DOMAIN _selected_data' = Elems(call'.id_list) \cap DOMAIN stored_data
        /\ call'.op = "get_by_name" =>
              DOMAIN _selected_data' =
                 {id \in DOMAIN stored_data :
                     NameOf(heap, stored_data, id) \in Elems(call'.name_list)}
        /\ call'.op \in {"add_data", "get_by_id", "get_by_name"} =>
              /\ has_selected'
              /\ \A id \in DOMAIN _selected_data' :
                    /\ id \in DOMAIN stored_data'
                    /\ _selected_data'[id] = stored_data'[id] ]_dmvars

\* C7 witness: get_by_name has selected some but not all registered entries
C7_Witness ==
    /\ call.op = "get_by_name"
    /\ Len(call.name_list) = 2
    /\ _selected_data # EmptyDict
    /\ DOMAIN _selected_data # DOMAIN stored_data

-----------------------------------------------------------------------------
(* Python string primitives; a string is a sequence of characters *)

MaxNameLen == 2    \* longest name typed in as input of rename
MaxRenames == 3    \* rename calls in one run

Digits == <<"0", "1", "2", "3", "4", "5", "6", "7", "8", "9">>

\* str(n) for an integer n >= 0
RECURSIVE str(_)
str(n) == IF n < 10 THEN <<Digits[n + 1]>>
          ELSE str(n \div 10) \o <<Digits[(n % 10) + 1]>>

\* s.find(ch): 0-based index of the first ch in s, -1 without one
find(s, ch) ==
    IF \E i \in 1..Len(s) : s[i] = ch
    THEN (CHOOSE i \in 1..Len(s) :
             s[i] = ch /\ \A j \in 1..(i-1) : s[j] # ch) - 1
    ELSE -1

\* s[0:n]
Prefix(s, n) == SubSeq(s, 1, n)

\* parse_name(name, expression) of sans.guiframe.utils
parse_name(name, expression) == name

-----------------------------------------------------------------------------
(* DataManager.rename *)

\* the name cut before its first "["
rename_base(name) ==
    LET parsed == parse_name(name, <<"_">>)
        at == find(parsed, "[")
        max_char == IF at < 0 THEN Len(parsed) ELSE at
    IN  Prefix(parsed, max_char)

\* self.data_name_dict[name] += 1
CountStuck(dict, name) == dict[name]

CountUp(dict, name) == dict[name] + 1

\* the dictionary and the name rename leaves behind
Renamed(dict, name) ==
    LET base == rename_base(name) IN
    IF base \notin DOMAIN dict
    THEN [dict |-> Put(dict, base, 0), name |-> base]
    ELSE LET n == CountUp(dict, base) IN
         [dict |-> Put(dict, base, n),
          name |-> base \o <<" ", "[">> \o str(n) \o <<"]">>]

NameChars == {"F", "[", " "}

\* the names passed to rename: short typed names, and labels that rename
\* handed out before (a dataset saved under its label and loaded again)
NameInputs ==
    SeqsUpTo(NameChars, MaxNameLen) \cup {renamed[i][2] : i \in 1..Len(renamed)}

rename(name) ==
    LET r == Renamed(data_name_dict, name) IN
    /\ Len(renamed) < MaxRenames
    /\ data_name_dict' = r.dict
    /\ renamed' = Append(renamed, <<name, r.name>>)
    /\ UNCHANGED <<dmvars, plvars, frvars, pbvars, asvars, cvvars, csvars, uivars>>

RnNext == \E name \in NameInputs : rename(name)

SpecRename == Init /\ [][RnNext]_vars

\* the longest prefix of name without "[": the name truncated at its first "["
C8_Base(name) ==
    LET ok == {n \in 0..Len(name) : \A i \in 1..n : name[i] # "["}
    IN  SubSeq(name, 1, CHOOSE n \in ok : \A k \in ok : k <= n)

\* how many of the first i-1 calls had the base name of call i
C8_Earlier(i) ==
    Cardinality({j \in 1..(i-1) : C8_Base(renamed[j][1]) = C8_Base(renamed[i][1])})

\* C8: the first rename call with base name B returns B, the (k+1)-th call
\* with base name B returns B + " [k]", and the labels returned over the
\* whole sequence of calls are pairwise distinct.
C8_LabelsDistinct ==
    /\ \A i \in 1..Len(renamed) :
          LET B == C8_Base(renamed[i][1])
              k == C8_Earlier(i)
          IN  renamed[i][2] = IF k = 0 THEN B
                              ELSE B \o <<" ", "[">> \o str(k) \o <<"]">>
    /\ \A i, j \in 1..Len(renamed) :
          i # j => renamed[i][2] # renamed[j][2]

\* C8 witness: "F" was registered twice, giving "F" and "F [1]", and then
\* the label "F [1]" itself was passed in, giving the first label of "F "
C8_Witness ==
    /\ Len(renamed) = 3
    /\ renamed[1] = << <<"F">>, <<"F">> >>
    /\ renamed[2] = << <<"F">>, <<"F", " ", "[", "1", "]">> >>
    /\ renamed[3] = << <<"F", " ", "[", "1", "]">>, <<"F", " ">> >>

-----------------------------------------------------------------------------
(* Loader plug-in: Plugin.get_data, Plugin.create_data, Plugin.load_complete *)

MaxFiles == 2      \* longest list of files passed to get_data
MaxCreated == 3    \* datasets created by the plug-in in one run

EXTENSIONS == {<<".", "s", "v", "s">>, <<".", "p", "r", "v">>,
               <<".", "i", "n", "v">>, <<".", "f", "i", "t", "v">>}

\* s.rfind(ch): 0-based index of the last ch in s, -1 without one
rfind(s, ch) ==
    IF \E i \in 1..Len(s) : s[i] = ch
    THEN (CHOOSE i \in 1..Len(s) :
             s[i] = ch /\ \A j \in (i+1)..Len(s) : s[j] # ch) - 1
    ELSE -1

\* s[n:]
Suffix(s, n) == SubSeq(s, n + 1, Len(s))

\* os.path.basename(p)
basename(p) == Suffix(p, rfind(p, "/") + 1)

\* os.path.splitext(p)[1] for a path without directory part: the text from
\* the last "." on, unless only dots come before it
splitext_ext(p) ==
    LET dotIndex == rfind(p, ".") IN
    IF dotIndex > -1 /\ \E i \in 1..dotIndex : p[i] # "."
    THEN Suffix(p, dotIndex)
    ELSE <<>>

LowerOf == [c \in {"S", "V", "F", "d"} |->
               CASE c = "S" -> "s" [] c = "V" -> "v" [] c = "F" -> "f" [] OTHER -> c]

\* s.lower()
lower(s) == [i \in 1..Len(s) |-> IF s[i] \in DOMAIN LowerOf THEN LowerOf[s[i]] ELSE s[i]]

\* the name create_data starts from: the first run name, else the file name
create_data_raw(item, path) ==
    LET file_name == basename(path)
        name == IF item.run # <<>> THEN item.run[1] ELSE <<>>
    IN  IF name = <<>> THEN file_name ELSE name

\* the raw name itself, not cut at "["
create_data_uncut(name) == parse_name(name, <<"_">>)

\* the name cut before its first "["
create_data_base(name) ==
    LET parsed == parse_name(name, <<"_">>)
        at == find(parsed, "[")
        max_char == IF at < 0 THEN Len(parsed) ELSE at
    IN  Prefix(parsed, max_char)

\* create_data(data, path): the plug-in's counters afterwards and the
\* dataset returned; its id is its name, its path the file it came from
create_data(dict, item, path) ==
    LET base == create_data_base(create_data_raw(item, path)) IN
    IF base \notin DOMAIN dict
    THEN [dict |-> Put(dict, base, 0), data |-> [id |-> base, name |-> base, path |-> path]]
    ELSE LET n == dict[base] + 1
             name == base \o <<" ", "[">> \o str(n) \o <<"]">>
         IN  [dict |-> Put(dict, base, n), data |-> [id |-> name, name |-> name, path |-> path]]

\* what loader.load(p_file) gives: an exception, one object or a list
RunF1 == <<"F", " ", "[", "1", "]">>

Loads == { [kind |-> "raise", items |-> <<>>],
           [kind |-> "one",   items |-> <<[run |-> <<>>]>>],
           [kind |-> "list",  items |-> <<[run |-> <<>>], [run |-> <<RunF1>>]>>] }

FilePaths == { <<"d", "/", "F">>, <<"d", "/", "F", ".", "S", "V", "S">> }

\* a file to load: its path and what the loader makes of it
Files == [p_file : FilePaths, load : Loads]

\* the filter without the case fold of the extension
SkippedCaseSensitive(p_file, flag) ==
    LET extension == splitext_ext(basename(p_file)) IN
    IF flag THEN extension \in EXTENSIONS
    ELSE extension \notin EXTENSIONS

\* the filter at the top of the loop of get_data: TRUE when p_file is skipped
Skipped(p_file, flag) ==
    LET extension == splitext_ext(basename(p_file)) IN
    IF flag THEN lower(extension) \in EXTENSIONS
    ELSE lower(extension) \notin EXTENSIONS

\* the inner loop over the loaded objects: g = [dict, output]
RECURSIVE CreateAll(_, _, _)
CreateAll(g, items, p_file) ==
    IF items = <<>> THEN g
    ELSE LET c == create_data(g.dict, Head(items), p_file) IN
         CreateAll([dict |-> c.dict, output |-> Append(g.output, c.data)],
                   Tail(items), p_file)

\* a loop over the files that ends at the first file that fails to load
RECURSIVE GetDataLoopStop(_, _, _)
GetDataLoopStop(g, path, flag) ==
    IF path = <<>> THEN g
    ELSE LET f == Head(path) IN
         IF Skipped(f.p_file, flag)
         THEN GetDataLoopStop([g EXCEPT !.log = Append(@, "skipped")], Tail(path), flag)
         ELSE IF f.load.kind = "raise"
         THEN [g EXCEPT !.log = Append(@, "error"), !.error_message = TRUE]
         ELSE LET c == CreateAll([dict |-> g.dict, output |-> g.output],
                                 f.load.items, f.p_file)
              IN  GetDataLoopStop([g EXCEPT !.dict = c.dict, !.output = c.output,
                                            !.log = Append(@, "loaded")],
                                  Tail(path), flag)

\* the loop of get_data over the files;
\* g = [dict, output, log, error_message]
RECURSIVE GetDataLoop(_, _, _)
GetDataLoop(g, path, flag) ==
    IF path = <<>> THEN g
    ELSE LET f == Head(path) IN
         IF Skipped(f.p_file, flag)
         THEN GetDataLoop([g EXCEPT !.log = Append(@, "skipped")], Tail(path), flag)
         ELSE IF f.load.kind = "raise"
         THEN GetDataLoop([g EXCEPT !.log = Append(@, "error"),
                                    !.error_message = TRUE],
                          Tail(path), flag)
         ELSE LET c == CreateAll([dict |-> g.dict, output |-> g.output],
                                 f.load.items, f.p_file)
              IN  GetDataLoop([g EXCEPT !.dict = c.dict, !.output = c.output,
                                        !.log = Append(@, "loaded")],
                              Tail(path), flag)

\* get_data(path, flag=flag), with load_complete and the add_data it ends in
get_data(path, flag) ==
    \E g \in {GetDataLoop([dict |-> plugin_name_dict, output |-> <<>>,
                           log |-> <<>>, error_message |-> FALSE], path, flag)} :
    \E m \in {AddLoop([Registry EXCEPT !.sel = EmptyDict], g.output)} :
        /\ Len(created) + Len(g.output) <= MaxCreated
        /\ plugin_name_dict' = g.dict
        /\ created' = created \o g.output
        /\ load_log' = [flag |-> flag, path |-> path, log |-> g.log,
                        output |-> g.output, load_error |-> g.error_message]
        /\ stored_data' = m.stored
        /\ _selected_data' = m.sel
        /\ has_selected' = TRUE
        /\ heap' = m.heap
        /\ next_ref' = m.next
        /\ call' = [NoCall EXCEPT !.op = "add_data", !.data_list = g.output]
        /\ err' = "none"
        /\ added' = NoteAdded(added, g.output)
        /\ UNCHANGED <<rnvars, frvars, pbvars, asvars, cvvars, csvars, uivars>>

PlNext == \E path \in SeqsUpTo(Files, MaxFiles), flag \in BOOLEAN : get_data(path, flag)

SpecLoader == Init /\ [][PlNext]_vars

\* C9: every dataset create_data produces gets an id different from the id
\* of every dataset it produced earlier, and registering the loaded
\* datasets never overwrites the entry of an earlier one: each dataset
\* created so far is still the data of the DataState stored under its id.
C9_LoadedIdsUnique ==
    /\ \A i, j \in 1..Len(created) : i # j => created[i].id # created[j].id
    /\ \A i \in 1..Len(created) :
          /\ created[i].id \in DOMAIN stored_data
          /\ heap[stored_data[created[i].id]].data = created[i]
    /\ Cardinality(DOMAIN stored_data) = Len(created)

\* C9 witness: three datasets were loaded, two named after files of the
\* same name and one whose run name is the label the second of them was given
C9_Witness ==
    /\ Len(created) = 3
    /\ \E i, j, k \in 1..3 :
          /\ created[i].id = <<"F">>
          /\ created[j].id = RunF1
          /\ created[k].id = <<"F", " ">>

-----------------------------------------------------------------------------
(* ConverterPanel.ask_frame_range *)

MaxNFrames == 10   \* most frames of a loaded file

\* the texts typed into an input of the dialog
FieldTexts == { <<>>, <<"0">>, <<"2">>, <<"5">>, <<"9">>, <<"1", "0">>,
                <<"-", "1">>, <<"1", ".", "5">> }

\* the frame counts ask_frame_range is called with
FrameCounts == {2, 4, MaxNFrames}

DataTypes == {"ascii", "otoko", "bsl"}

DigitValue(c) == (CHOOSE i \in 1..10 : Digits[i] = c) - 1

IsDigits(s) == Len(s) > 0 /\ \A i \in 1..Len(s) : \E d \in 1..10 : Digits[d] = s[i]

RECURSIVE DigitsValue(_)
DigitsValue(s) ==
    IF s = <<>> THEN 0
    ELSE 10 * DigitsValue(SubSeq(s, 1, Len(s) - 1)) + DigitValue(s[Len(s)])

\* s.strip(): without the blanks at either end
RECURSIVE strip(_)
strip(s) ==
    IF s # <<>> /\ Head(s) = " " THEN strip(Tail(s))
    ELSE IF s # <<>> /\ s[Len(s)] = " " THEN strip(SubSeq(s, 1, Len(s) - 1))
    ELSE s

\* int(text): None when it raises ValueError, else the value; blanks around
\* the number and one sign before its digits are accepted
int(text) ==
    LET t == strip(text)
        signed == t # <<>> /\ Head(t) \in {"-", "+"}
        body == IF signed THEN Tail(t) ELSE t
    IN  IF ~IsDigits(body) THEN None
        ELSE IF signed /\ Head(t) = "-" THEN Some(0 - DigitsValue(body))
        ELSE Some(DigitsValue(body))

\* the if/elif chain on the three integers: the message, "" when they are valid
ValidateNoOrder(first_frame, last_frame, increment, n) ==
    IF last_frame < 0 \/ first_frame < 0 THEN "Frame values must be positive"
    ELSE IF increment < 1 THEN "Increment must be greater than or equal to 1"
    ELSE IF last_frame >= n THEN "Last frame must be less than n_frames"
    ELSE ""

Validate(first_frame, last_frame, increment, n) ==
    IF last_frame < 0 \/ first_frame < 0 THEN "Frame values must be positive"
    ELSE IF increment < 1 THEN "Increment must be greater than or equal to 1"
    ELSE IF first_frame > last_frame THEN "First frame must be less than last frame"
    ELSE IF last_frame >= n THEN "Last frame must be less than n_frames"
    ELSE ""

\* range(start, stop, step) for step >= 1
range(start, stop, step) ==
    LET len == IF stop <= start THEN 0 ELSE ((stop - start - 1) \div step) + 1
    IN  [i \in 1..len |-> start + (i - 1) * step]

\* the try block of one pass of the while loop, after the user pressed OK:
\* the local variables afterwards.  An int() that raises ends the block
\* with the message of the except clause, before single_file is read.
\* first_frame, last_frame and increment are written here and read only
\* after a pass that wrote all three, so they are kept for that pass alone.
TryBlock(l, d, is_bsl, n) ==
    LET f == int(d.first_input)
        la == int(d.last_input)
        inc == int(d.increment_input)
    IN  IF f = None \/ la = None \/ inc = None
        THEN [l EXCEPT !.valid_input = FALSE,
                       !.first_frame = None, !.last_frame = None,
                       !.increment = None,
                       !.msg = "Please enter valid integer values"]
        ELSE LET m == Validate(f[1], la[1], inc[1], n) IN
             [l EXCEPT !.first_frame = IF m = "" THEN f ELSE None,
                       !.last_frame = IF m = "" THEN la ELSE None,
                       !.increment = IF m = "" THEN inc ELSE None,
                       !.single_file = IF is_bsl THEN @ ELSE d.single_btn,
                       !.msg = m,
                       !.valid_input = (m = "")]

\* the call: the dialog is created and its first ShowModal is pending
ask_frame_range(n, dt) ==
    /\ fr_pc # "asking"
    /\ fr_pc' = "asking"
    /\ n_frames' = n
    /\ data_type' = dt
    /\ dlg' = NoDialog
    /\ loc' = NoLocals
    /\ status' = ""
    /\ result' = NoResult
    /\ UNCHANGED <<dmvars, rnvars, plvars, pbvars, asvars, cvvars, csvars, uivars>>

\* a confirmation that ends the call even when the input is rejected
ShowModalOKAbort(first, last, inc, single) ==
    /\ fr_pc = "asking"
    /\ \E d \in {[first_input |-> first, last_input |-> last,
                  increment_input |-> inc, single_btn |-> single]} :
       \E l \in {TryBlock(loc, d, data_type = "bsl", n_frames)} :
          /\ dlg' = d
          /\ loc' = l
          /\ IF l.valid_input
             THEN /\ fr_pc' = "returned"
                  /\ result' = [frames |-> range(l.first_frame[1],
                                                 l.last_frame[1] + l.increment[1],
                                                 l.increment[1]),
                                inc |-> l.increment,
                                file |-> l.single_file]
                  /\ UNCHANGED status
             ELSE /\ fr_pc' = "returned"
                  /\ status' = l.msg
                  /\ UNCHANGED result
    /\ UNCHANGED <<data_type, n_frames, dmvars, rnvars, plvars, pbvars, asvars, cvvars, csvars, uivars>>

\* dlg.ShowModal() returns anything else: the dialog was cancelled

\* dlg.ShowModal() == wx.ID_OK with the given texts in the inputs
ShowModalOK(first, last, inc, single) ==
    /\ fr_pc = "asking"
    /\ \E d \in {[first_input |-> first, last_input |-> last,
                  increment_input |-> inc, single_btn |-> single]} :
       \E l \in {TryBlock(loc, d, data_type = "bsl", n_frames)} :
          /\ dlg' = d
          /\ loc' = l
          /\ IF l.valid_input
             THEN /\ fr_pc' = "returned"
                  /\ result' = [frames |-> range(l.first_frame[1],
                                                 l.last_frame[1] + l.increment[1],
                                                 l.increment[1]),
                                inc |-> l.increment,
                                file |-> l.single_file]
                  /\ UNCHANGED status
             ELSE /\ fr_pc' = "asking"
                  /\ status' = l.msg
                  /\ UNCHANGED result
    /\ UNCHANGED <<data_type, n_frames, dmvars, rnvars, plvars, pbvars, asvars, cvvars, csvars, uivars>>

\* dlg.ShowModal() returns anything else: the dialog was cancelled
ShowModalCancel ==
    /\ fr_pc = "asking"
    /\ fr_pc' = "cancelled"
    /\ result' = [frames |-> <<>>, inc |-> None, file |-> loc.single_file]
    /\ UNCHANGED <<data_type, n_frames, dlg, loc, status, dmvars, rnvars, plvars, pbvars, asvars, cvvars, csvars, uivars>>

FrNext ==
    \/ \E n \in FrameCounts, dt \in DataTypes : ask_frame_range(n, dt)
    \/ \E first, last, inc \in FieldTexts, single \in BOOLEAN :
          ShowModalOK(first, last, inc, single)
    \/ ShowModalCancel

SpecFrame == Init /\ [][FrNext]_vars

\* the integer a text denotes, for the texts that denote one
C10_IsInteger(text) == int(text) # None

C10_Value(text) == int(text)[1]

\* C10: ask_frame_range returns frames for a confirmed input only if the
\* three inputs are integers with first >= 0, last >= 0, increment >= 1,
\* first <= last and last < n_frames; every other confirmed input is
\* rejected, the dialog stays open and nothing is returned for it.
C10_OnlyValidAccepted ==
    /\ fr_pc = "returned" =>
          /\ C10_IsInteger(dlg.first_input)
          /\ C10_IsInteger(dlg.last_input)
          /\ C10_IsInteger(dlg.increment_input)
          /\ C10_Value(dlg.first_input) >= 0
          /\ C10_Value(dlg.last_input) >= 0
          /\ C10_Value(dlg.increment_input) >= 1
          /\ C10_Value(dlg.first_input) <= C10_Value(dlg.last_input)
          /\ C10_Value(dlg.last_input) < n_frames
    /\ (fr_pc = "asking" /\ dlg # NoDialog) => ~loc.valid_input /\ status = loc.msg

\* C10 witness: first=5, last=2 was confirmed and rejected, the dialog is
\* still open
C10_Witness ==
    /\ fr_pc = "asking"
    /\ dlg.first_input = <<"5">>
    /\ dlg.last_input = <<"2">>
    /\ dlg.increment_input = <<"2">>
    /\ status = "First frame must be less than last frame"

\* the frames first, first+increment, ... that do not exceed last
C11_Expected(first, last, inc) ==
    [i \in 1..(((last - first) \div inc) + 1) |-> first + (i - 1) * inc]

\* C11 (as claimed): for an accepted input ask_frame_range returns exactly
\* the frames first, first+increment, ... that do not exceed last, so every
\* returned frame f satisfies first <= f <= last < n_frames.
C11_FramesWithinRange ==
    fr_pc = "returned" =>
        /\ result.frames = C11_Expected(C10_Value(dlg.first_input),
                                        C10_Value(dlg.last_input),
                                        C10_Value(dlg.increment_input))
        /\ \A i \in 1..Len(result.frames) :
              /\ C10_Value(dlg.first_input) <= result.frames[i]
              /\ result.frames[i] <= C10_Value(dlg.last_input)
              /\ result.frames[i] < n_frames

\* the pass of the loop that a step takes, when the step is a confirmation
C12_Confirmed == fr_pc = "asking" /\ fr_pc' # "cancelled" /\ dlg' # NoDialog

\* C12: a rejected confirmation posts a status message and leaves the same
\* dialog open for the same call; ask_frame_range returns only after a
\* valid confirmation, with a result built from that input, or after a
\* cancel, with an empty frame list.
C12_RejectReprompts ==
    [][ /\ (C12_Confirmed /\ ~loc'.valid_input) =>
              /\ fr_pc' = "asking"
              /\ status' = loc'.msg
              /\ status' # ""
              /\ n_frames' = n_frames
              /\ data_type' = data_type
              /\ result' = result
        /\ (fr_pc = "asking" /\ fr_pc' = "returned") =>
              /\ loc'.valid_input
              /\ Validate(C10_Value(dlg'.first_input), C10_Value(dlg'.last_input),
                          C10_Value(dlg'.increment_input), n_frames) = ""
              /\ result'.frames # <<>>
              /\ result'.frames[1] = C10_Value(dlg'.first_input)
              /\ result'.inc = Some(C10_Value(dlg'.increment_input))
        /\ (fr_pc = "asking" /\ fr_pc' = "cancelled") =>
              /\ result'.frames = <<>>
              /\ result'.inc = None
        /\ (fr_pc = "asking" /\ fr_pc' = "idle") => FALSE ]_vars

\* C12 witness: a confirmation was rejected for its increment, and the
\* call then returned the frames of a later, valid confirmation
C12_Witness ==
    /\ fr_pc = "returned"
    /\ status = "Increment must be greater than or equal to 1"
    /\ result.frames = <<0, 2>>

\* C18 (as claimed): get_selected_data never raises, and after delete_data
\* of a selected identifier the selection is still a mapping, without that
\* identifier and with the other selected identifiers.
C18_SelectionSurvives ==
    /\ call.op = "get_selected_data" => err = "none"
    /\ call.op = "delete_data" => has_selected

\* TRUE when the name of the file ends, in any letter case, with one of the
\* state-file extensions .svs, .prv, .inv, .fitv
C19_IsStateFile(p_file) ==
    \E e \in EXTENSIONS :
        /\ Len(p_file) > Len(e)
        /\ lower(SubSeq(p_file, Len(p_file) - Len(e) + 1, Len(p_file))) = e

\* the files of the last get_data that were passed to the loader
C17_Attempted(i) == ~ (load_log.flag <=> C19_IsStateFile(load_log.path[i].p_file))

\* the paths of the datasets that the files path[i..] give when every file
\* that loads contributes its datasets, in file order
RECURSIVE C17_ExpectedPaths(_)
C17_ExpectedPaths(i) ==
    IF i > Len(load_log.path) THEN <<>>
    ELSE LET f == load_log.path[i] IN
         (IF C17_Attempted(i) /\ f.load.kind # "raise"
          THEN [k \in 1..Len(f.load.items) |-> f.p_file]
          ELSE <<>>) \o C17_ExpectedPaths(i + 1)

C19_ExtensionFilter ==
    \A i \in 1..Len(load_log.log) :
        load_log.log[i] = "skipped" <=>
            (load_log.flag <=> C19_IsStateFile(load_log.path[i].p_file))

\* C19 witness: with flag False a file without state extension was skipped
\* and a file with the extension .SVS was passed to the loader
C19_Witness ==
    /\ ~load_log.flag
    /\ Len(load_log.path) = 2
    /\ load_log.path[1].p_file = <<"d", "/", "F">>
    /\ load_log.path[2].p_file = <<"d", "/", "F", ".", "S", "V", "S">>
    /\ load_log.log = <<"skipped", "loaded">>

-----------------------------------------------------------------------------
(* PluginBase (guiframe/plugin_base.py), run under Python 2 *)

PluginNames == {"Test_plugin", "Foo"}
Parents == {"frame1", "frame2"}
Events == {"evt"}

\* a call that returned value v ("None" when it fell off its end)
Returns(v) == [raised |-> "", msg |-> <<>>, value |-> v]

\* a call that ended with the exception exc
Raises(exc, msg) == [raised |-> exc, msg |-> msg, value |-> ""]

\* "raise NotImplemented": NotImplemented is not an exception, so the
\* raise statement itself fails with TypeError
RaiseNotImplemented ==
    Raises("TypeError", <<"exceptions must be old-style classes or derived from BaseException, not NotImplementedType">>)

\* a method that only reads: records the call and what it gave
Called(name, args, ret) ==
    /\ hook' = [name |-> name, args |-> args]
    /\ hook_ret' = ret
    /\ UNCHANGED <<dmvars, rnvars, plvars, frvars, asvars, cvvars, csvars, uivars>>

PluginBase_init(name, sa) ==
    /\ _always_active' = FALSE
    /\ sub_menu' = name
    /\ standalone' = sa
    /\ parent' = None
    /\ Called("__init__", <<name, sa>>, Returns("None"))

clear_panel ==
    /\ Called("clear_panel", <<>>, Returns("None"))
    /\ UNCHANGED <<sub_menu, standalone, parent, _always_active>>

get_extensions ==
    /\ Called("get_extensions", <<>>, Returns("(None, '')"))
    /\ UNCHANGED <<sub_menu, standalone, parent, _always_active>>

can_load_data ==
    /\ Called("can_load_data", <<>>, Returns("False"))
    /\ UNCHANGED <<sub_menu, standalone, parent, _always_active>>

use_data ==
    /\ Called("use_data", <<>>, Returns("True"))
    /\ UNCHANGED <<sub_menu, standalone, parent, _always_active>>

is_in_use(data_id) ==
    /\ Called("is_in_use", <<data_id>>, Returns("False"))
    /\ UNCHANGED <<sub_menu, standalone, parent, _always_active>>

PluginBase_delete_data(data_id) ==
    /\ Called("delete_data", <<data_id>>, Returns("None"))
    /\ UNCHANGED <<sub_menu, standalone, parent, _always_active>>

\* a load_data that does nothing
load_dataNoOp(event) ==
    /\ Called("load_data", <<event>>, Returns("None"))
    /\ UNCHANGED <<sub_menu, standalone, parent, _always_active>>

load_data(event) ==
    /\ Called("load_data", <<event>>, RaiseNotImplemented)
    /\ UNCHANGED <<sub_menu, standalone, parent, _always_active>>

load_folder(event) ==
    /\ Called("load_folder", <<event>>, RaiseNotImplemented)
    /\ UNCHANGED <<sub_menu, standalone, parent, _always_active>>

set_is_active(active) ==
    /\ _always_active' = active
    /\ Called("set_is_active", <<active>>, Returns("None"))
    /\ UNCHANGED <<sub_menu, standalone, parent>>

is_always_active ==
    /\ Called("is_always_active", <<>>,
              Returns(IF _always_active THEN "True" ELSE "False"))
    /\ UNCHANGED <<sub_menu, standalone, parent, _always_active>>

populate_menu(p) ==
    /\ Called("populate_menu", <<p>>, Returns("[]"))
    /\ UNCHANGED <<sub_menu, standalone, parent, _always_active>>

get_panels(p) ==
    /\ parent' = Some(p)
    /\ Called("get_panels", <<p>>, Returns("[]"))
    /\ UNCHANGED <<sub_menu, standalone, _always_active>>

get_tools ==
    /\ Called("get_tools", <<>>, Returns("[]"))
    /\ UNCHANGED <<sub_menu, standalone, parent, _always_active>>

get_context_menu ==
    /\ Called("get_context_menu", <<>>, Returns("[]"))
    /\ UNCHANGED <<sub_menu, standalone, parent, _always_active>>

\* self.perspective is the empty list __init__ made
get_perspective ==
    /\ Called("get_perspective", <<>>, Returns("[]"))
    /\ UNCHANGED <<sub_menu, standalone, parent, _always_active>>

\* self.parent.set_current_perspective(self): an attribute of None before
\* get_panels has stored the parent
on_perspective ==
    /\ Called("on_perspective", <<>>,
              IF parent = None
              THEN Raises("AttributeError", <<"'NoneType' object has no attribute 'set_current_perspective'">>)
              ELSE Returns("None"))
    /\ UNCHANGED <<sub_menu, standalone, parent, _always_active>>

post_init ==
    /\ Called("post_init", <<>>, Returns("None"))
    /\ UNCHANGED <<sub_menu, standalone, parent, _always_active>>

set_default_perspective ==
    /\ Called("set_default_perspective", <<>>,
              Returns(IF standalone THEN "True" ELSE "False"))
    /\ UNCHANGED <<sub_menu, standalone, parent, _always_active>>

set_state ==
    /\ Called("set_state", <<>>, Returns("None"))
    /\ UNCHANGED <<sub_menu, standalone, parent, _always_active>>

set_data ==
    /\ Called("set_data", <<>>, Returns("None"))
    /\ UNCHANGED <<sub_menu, standalone, parent, _always_active>>

PluginBase_set_theory ==
    /\ Called("set_theory", <<>>,
              Raises("ValueError", <<sub_menu, " plugin: does not support import theory">>))
    /\ UNCHANGED <<sub_menu, standalone, parent, _always_active>>

on_set_state_helper(event) ==
    /\ Called("on_set_state_helper", <<event>>, Returns("None"))
    /\ UNCHANGED <<sub_menu, standalone, parent, _always_active>>

PbNext ==
    \/ \E name \in PluginNames, sa \in BOOLEAN : PluginBase_init(name, sa)
    \/ clear_panel
    \/ get_extensions
    \/ can_load_data
    \/ use_data
    \/ \E data_id \in Ids : is_in_use(data_id)
    \/ \E data_id \in Ids : PluginBase_delete_data(data_id)
    \/ \E event \in Events : load_data(event)
    \/ \E event \in Events : load_folder(event)
    \/ \E active \in BOOLEAN : set_is_active(active)
    \/ is_always_active
    \/ \E p \in Parents : populate_menu(p)
    \/ \E p \in Parents : get_panels(p)
    \/ get_tools
    \/ get_context_menu
    \/ get_perspective
    \/ on_perspective
    \/ post_init
    \/ set_default_perspective
    \/ set_state
    \/ set_data
    \/ PluginBase_set_theory
    \/ \E event \in Events : on_set_state_helper(event)

SpecPlugin == Init /\ [][PbNext]_vars

\* the hooks the documentation lists as optional overrides
C16_Hooks == {"clear_panel", "delete_data", "load_data", "load_folder",
              "populate_menu", "get_panels", "get_tools", "get_context_menu",
              "post_init", "set_state", "set_data", "set_theory",
              "on_set_state_helper"}

\* the hooks whose default implementation raises
C16_Raising == {"load_data", "load_folder", "set_theory"}

\* C16 (as claimed): a call of any hook on a plug-in that does not override
\* it raises no error and returns nothing or an empty list.
C16_AllHooksNoOp ==
    hook.name \in C16_Hooks =>
        hook_ret.raised = "" /\ hook_ret.value \in {"None", "[]"}

\* C16 (amended): a call of any hook other than load_data, load_folder and
\* set_theory raises no error and returns nothing or an empty list; the
\* defaults of load_data and load_folder raise TypeError (from "raise
\* NotImplemented") and the default of set_theory raises ValueError with a
\* message naming the plug-in.
C16_HooksExceptThree ==
    /\ hook.name \in C16_Hooks \ C16_Raising =>
          hook_ret.raised = "" /\ hook_ret.value \in {"None", "[]"}
    /\ hook.name \in {"load_data", "load_folder"} => hook_ret.raised = "TypeError"
    /\ hook.name = "set_theory" =>
          /\ hook_ret.raised = "ValueError"
          /\ hook_ret.msg = <<sub_menu, " plugin: does not support import theory">>

\* C16 witness: set_theory was called on a plug-in named Foo whose parent
\* get_panels had stored, and raised
C16_Witness ==
    /\ hook.name = "set_theory"
    /\ sub_menu = "Foo"
    /\ parent = Some("frame2")
    /\ hook_ret.raised = "ValueError"

-----------------------------------------------------------------------------
(* ConverterPanel.extract_ascii_data *)

MaxLines == 3      \* most lines of an ASCII file

\* the lines a file is made of: numbers, numbers followed by a terminator,
\* a number followed by a letter, and a line of two columns
AsciiLines == { <<"1">>, <<"2", "3">>, <<"1", ",">>, <<"2", "3", ",">>,
                <<"2", ";">>, <<"4", "x">>, <<"1", " ", "2">> }

AsciiFiles == UNION {[1..k -> AsciiLines] : k \in 1..MaxLines}

FileNames == {"q.txt", "iq.txt"}

\* line.split(): the columns of a line, separated by blanks
RECURSIVE split(_)
split(line) ==
    LET t == strip(line)
        at == find(t, " ")
    IN  IF t = <<>> THEN <<>>
        ELSE IF at < 0 THEN <<t>>
        ELSE <<Prefix(t, at)>> \o split(Suffix(t, at + 1))

\* the rows of a table, one after the other
RECURSIVE Flatten(_)
Flatten(rows) == IF rows = <<>> THEN <<>> ELSE Head(rows) \o Flatten(Tail(rows))

\* np.squeeze: the shape without its axes of length one
squeeze(shape) == SelectSeq(shape, LAMBDA n : n # 1)

\* np.loadtxt(filename, dtype=str): the table of the columns of every line,
\* squeezed; ValueError when the lines differ in their number of columns
loadtxt(lines) ==
    LET rows == [i \in 1..Len(lines) |-> split(lines[i])] IN
    IF \E i \in 1..Len(rows) : Len(rows[i]) # Len(rows[1])
    THEN [raised |-> "ValueError", shape |-> <<>>, data |-> <<>>]
    ELSE [raised |-> "", shape |-> squeeze(<<Len(rows), Len(rows[1])>>),
          data |-> Flatten(rows)]

\* float(s) for a text of digits and terminators: None when it raises
\* ValueError, else the value
float(s) == IF IsDigits(s) THEN Some(DigitsValue(s)) ELSE None

\* map(lambda s: s[0:-1], data)
StripLast(data) == [i \in 1..Len(data) |-> SubSeq(data[i], 1, Len(data[i]) - 1)]

\* np.array(data, dtype=np.float32): ValueError when an element is no number
ToFloatArray(data) ==
    IF \E i \in 1..Len(data) : float(data[i]) = None
    THEN [raised |-> "ValueError", msg |-> <<"could not convert string to float">>,
          value |-> <<>>]
    ELSE [raised |-> "", msg |-> <<>>,
          value |-> [i \in 1..Len(data) |-> float(data[i])[1]]]

\* extract_ascii_data(filename) on a file with the given lines
ExtractAscii(filename, lines) ==
    LET loaded == loadtxt(lines)
        data == loaded.data
        is_float == float(data[1]) # None
        end_char == data[1][Len(data[1])]
    IN  IF loaded.raised # ""
        THEN [raised |-> loaded.raised, msg |-> <<"wrong number of columns">>,
              value |-> <<>>]
        ELSE IF Len(loaded.shape) # 1
        THEN [raised |-> "Exception",
              msg |-> <<"Error reading ", filename, ": Only one column of data is allowed">>,
              value |-> <<>>]
        ELSE IF is_float THEN ToFloatArray(data)
        ELSE IF end_char = "," \/ end_char = ";" THEN ToFloatArray(StripLast(data))
        ELSE [raised |-> "Exception",
              msg |-> <<"Error reading ", filename,
                        ": Lines must end with a digit, comma or semi-colon">>,
              value |-> <<>>]

extract_ascii_data(filename, lines) ==
    /\ ascii_call' = [filename |-> filename, lines |-> lines]
    /\ ascii_ret' = ExtractAscii(filename, lines)
    /\ UNCHANGED <<dmvars, rnvars, plvars, frvars, pbvars, cvvars, csvars, uivars>>

AsNext == \E filename \in FileNames, lines \in AsciiFiles :
              extract_ascii_data(filename, lines)

SpecAscii == Init /\ [][AsNext]_vars

\* the last character of a line
C13_End(line) == line[Len(line)]

\* the line without its last character
C13_Body(line) == SubSeq(line, 1, Len(line) - 1)

\* every line of the file read last is a number
C13_AllPlain ==
    \A i \in 1..Len(ascii_call.lines) : IsDigits(ascii_call.lines[i])

\* every line of the file read last is a number followed by the character c
C13_AllEndWith(c) ==
    \A i \in 1..Len(ascii_call.lines) :
        /\ C13_End(ascii_call.lines[i]) = c
        /\ IsDigits(C13_Body(ascii_call.lines[i]))

\* C13 (as claimed): a file of plain numbers gives those numbers in file
\* order, and a file whose every line is a number followed by "," (or every
\* line by ";") gives the numbers before the terminators, in file order.
C13_NumbersInFileOrder ==
    /\ (ascii_call.lines # <<>> /\ C13_AllPlain) =>
          /\ ascii_ret.raised = ""
          /\ ascii_ret.value = [i \in 1..Len(ascii_call.lines) |->
                                    DigitsValue(ascii_call.lines[i])]
    /\ (ascii_call.lines # <<>> /\ (C13_AllEndWith(",") \/ C13_AllEndWith(";"))) =>
          /\ ascii_ret.raised = ""
          /\ ascii_ret.value = [i \in 1..Len(ascii_call.lines) |->
                                    DigitsValue(C13_Body(ascii_call.lines[i]))]

\* the file read last has one column
C14_SingleColumn ==
    \A i \in 1..Len(ascii_call.lines) : find(ascii_call.lines[i], " ") < 0

\* the file read last has one column and its lines do not all end the same
\* way: a line ends in a digit and another in "," or ";", or a line ends in
\* some other character
C14_Inconsistent ==
    /\ C14_SingleColumn
    /\ \/ \E i, j \in 1..Len(ascii_call.lines) :
             /\ IsDigits(<<C13_End(ascii_call.lines[i])>>)
             /\ C13_End(ascii_call.lines[j]) \in {",", ";"}
       \/ \E i \in 1..Len(ascii_call.lines) :
             /\ ~IsDigits(<<C13_End(ascii_call.lines[i])>>)
             /\ C13_End(ascii_call.lines[i]) \notin {",", ";"}

\* C14 (as claimed): a single-column file with inconsistent line terminators
\* makes extract_ascii_data raise; it never returns an array.
C14_InconsistentRaises ==
    C14_Inconsistent => ascii_ret.raised # ""

-----------------------------------------------------------------------------
(* ConverterPanel.on_convert *)

\* the three path inputs when Convert is clicked: TRUE for a path that is set
Paths == { [q |-> TRUE,  iq |-> TRUE,  output |-> TRUE],
           [q |-> FALSE, iq |-> TRUE,  output |-> TRUE],
           [q |-> TRUE,  iq |-> FALSE, output |-> TRUE],
           [q |-> TRUE,  iq |-> TRUE,  output |-> FALSE] }

\* validate_inputs(): the message posted, "" when it returns True
validate_inputs(paths, dt) ==
    IF ~paths.q /\ dt # "bsl" THEN "You must select a Q Axis input file."
    ELSE IF ~paths.iq THEN "You must select an Intensity input file."
    ELSE IF ~paths.output THEN "You must select adestination for the converted file."
    ELSE ""

\* the ASCII files on_convert is given
ConvFiles == { <<<<"1">>>>, <<<<"1">>, <<"2", "3">>>>, <<<<"4", "x">>, <<"1">>>> }

\* what the input files hold, by data type. ascii: the lines of the two
\* files. otoko: the loader raises, or gives q_frames frames of Q and n
\* frames of intensity. bsl: the loader raises, or the file has n frames.
Extractions(dt) ==
    IF dt = "ascii" THEN [kind : {"ascii"}, q : ConvFiles, iq : ConvFiles]
    ELSE IF dt = "otoko"
    THEN [kind : {"raise"}] \cup [kind : {"otoko"}, q_frames : 1..2, n : FrameCounts]
    ELSE [kind : {"raise"}] \cup [kind : {"bsl"}, n : FrameCounts \cup {1}]

\* an extraction that accepts a Q axis of several frames
ExtractNoQCheck(ex) ==
    IF ex.kind = "raise" THEN [msg |-> "loader error", n |-> 0, read |-> {"q", "iq"}]
    ELSE IF ex.kind = "otoko"
    THEN [msg |-> "", n |-> ex.n, read |-> {"q", "iq"}]
    ELSE LET q == ExtractAscii("q.txt", ex.q)
             iq == ExtractAscii("iq.txt", ex.iq)
         IN  IF q.raised # "" THEN [msg |-> q.raised, n |-> 0, read |-> {"q"}]
             ELSE IF iq.raised # "" THEN [msg |-> iq.raised, n |-> 0, read |-> {"q", "iq"}]
             ELSE [msg |-> "", n |-> 1, read |-> {"q", "iq"}]

\* the try block up to the end of the extraction, for ascii and otoko:
\* the message of the exception caught, or the number of frames of iqdata,
\* and the inputs opened
Extract(ex) ==
    IF ex.kind = "raise" THEN [msg |-> "loader error", n |-> 0, read |-> {"q", "iq"}]
    ELSE IF ex.kind = "otoko"
    THEN IF ex.q_frames > 1
         THEN [msg |-> "'NoneType' object is not iterable", n |-> 0,
               read |-> {"q", "iq"}]
         ELSE [msg |-> "", n |-> ex.n, read |-> {"q", "iq"}]
    ELSE LET q == ExtractAscii("q.txt", ex.q)
             iq == ExtractAscii("iq.txt", ex.iq)
         IN  IF q.raised # "" THEN [msg |-> q.raised, n |-> 0, read |-> {"q"}]
             ELSE IF iq.raised # "" THEN [msg |-> iq.raised, n |-> 0, read |-> {"q", "iq"}]
             ELSE [msg |-> "", n |-> 1, read |-> {"q", "iq"}]

\* s.replace(sub, ''): s without the occurrences of sub, found left to right
RECURSIVE replace(_, _)
replace(s, sub) ==
    IF Len(s) < Len(sub) THEN s
    ELSE IF SubSeq(s, 1, Len(sub)) = sub THEN replace(Suffix(s, Len(sub)), sub)
    ELSE <<Head(s)>> \o replace(Tail(s), sub)

\* convert_to_cansas(frame_data, filename, single_file): the files written,
\* frame_data given by the frame each Data1D was made from
convert_to_cansas(frame_data, filename, single_file) ==
    IF single_file
    THEN <<[f_name |-> filename, frames |-> frame_data]>>
    ELSE LET ext == <<".">> \o Suffix(filename, rfind(filename, ".") + 1)
             name == replace(filename, ext)
         IN  [i \in 1..Len(frame_data) |->
                 [f_name |-> name \o str(i - 1) \o ext,
                  frames |-> <<frame_data[i]>>]]

\* self.output.GetPath() when on_convert gets as far as writing
OutputPath == <<"o", ".", "x">>

\* the end of on_convert, from "output_path = ..." on, for the frames chosen:
\* iqdata[i] fails for a frame iqdata does not have, and the writer may fail
Export(frames, single_file, n, write_fails) ==
    IF \E i \in 1..Len(frames) : frames[i] >= n
    THEN [pc |-> "raised", raised |-> "IndexError", written |-> <<>>, status |-> ""]
    ELSE IF write_fails
    THEN [pc |-> "raised", raised |-> "IOError", written |-> <<>>, status |-> ""]
    ELSE [pc |-> "ret_end", raised |-> "",
          written |-> convert_to_cansas(frames, OutputPath, single_file),
          status |-> "Conversion completed."]

\* the name of the file of frame i when several frames are exported:
\* str(i+1) is appended to the part of the name before its first "."
FrameFilename(filename, i) ==
    LET at == find(filename, ".") IN
    IF at < 0 THEN filename \o str(i + 1)
    ELSE Prefix(filename, at) \o str(i + 1) \o Suffix(filename, at)

\* the bsl branch from "data = {}" on, all of it inside the try block: one
\* file for each frame, numbered when there are several
ExportBsl(frames, fails) ==
    IF fails
    THEN [pc |-> "ret_except", raised |-> "", written |-> <<>>, status |-> "loader error"]
    ELSE [pc |-> "ret_bsl", raised |-> "",
          written |-> [i \in 1..Len(frames) |->
                          [f_name |-> IF Len(frames) > 1
                                      THEN FrameFilename(OutputPath, frames[i])
                                      ELSE OutputPath,
                           frames |-> <<frames[i]>>]],
          status |-> "Conversion completed."]

\* "if self.title is None: self.title = ''" before the metadata is built
TitleForMetadata(t) == IF t = None THEN Some("") ELSE t

\* sample.ID set from the title whether or not the inputs are valid
SampleIdAlways(v, t) == t

\* "self.sample.ID = self.title" once validate_inputs has passed; v is the
\* message of validate_inputs
SampleIdAfter(v, t) == IF v # "" THEN sample_ID ELSE t

\* on_convert returns or raises without a dialog: o = [pc, raised, written, status]
Finish(o) ==
    /\ cv_pc' = o.pc
    /\ cv_raised' = o.raised
    /\ written' = o.written
    /\ status' = o.status

\* a datatype_changed that leaves the path of q_input alone
datatype_changedKeepPath(dtype) ==
    /\ cv_pc # "dialog"
    /\ radio_btn' = dtype
    /\ data_type' = dtype
    /\ q_enabled' = (dtype # "bsl")
    /\ radiation_enabled' = (dtype # "bsl")
    /\ metadata_enabled' = (dtype # "bsl")
    /\ UNCHANGED q_path
    /\ UNCHANGED <<fr_pc, n_frames, dlg, loc, status, result, cvvars>>
    /\ UNCHANGED <<dmvars, rnvars, plvars, pbvars, asvars, csvars>>

\* the user picks a file in q_input, or clears it
q_input_SetPath(path) ==
    /\ cv_pc # "dialog"
    /\ q_enabled
    /\ q_path' = path
    /\ UNCHANGED <<radio_btn, q_enabled, radiation_enabled, metadata_enabled>>
    /\ UNCHANGED <<dmvars, rnvars, plvars, frvars, pbvars, asvars, cvvars, csvars>>

\* metadata_changed(event) for the title text box: an empty text is None
metadata_changed(value) ==
    /\ cv_pc # "dialog"
    /\ metadata_enabled
    /\ title' = value
    /\ UNCHANGED <<cv_pc, cv_raised, written, cv_call, files_read, sample_ID>>
    /\ UNCHANGED <<dmvars, rnvars, plvars, frvars, pbvars, asvars, uivars, csvars>>

\* datatype_changed(event): a data type radio button is pressed
datatype_changed(dtype) ==
    /\ cv_pc # "dialog"
    /\ radio_btn' = dtype
    /\ data_type' = dtype
    /\ IF dtype = "bsl"
       THEN /\ q_path' = ""
            /\ q_enabled' = FALSE
            /\ radiation_enabled' = FALSE
            /\ metadata_enabled' = FALSE
       ELSE /\ q_enabled' = TRUE
            /\ radiation_enabled' = TRUE
            /\ metadata_enabled' = TRUE
            /\ UNCHANGED q_path
    /\ UNCHANGED <<fr_pc, n_frames, dlg, loc, status, result, cvvars>>
    /\ UNCHANGED <<dmvars, rnvars, plvars, pbvars, asvars, csvars>>

\* on_convert(event), up to its return or to the frame dialog it opens
on_convert(paths, ex, write_fails) ==
    /\ cv_pc # "dialog"
    /\ paths.q = (q_path # "")
    /\ cv_call' = [paths |-> paths, ex |-> ex]
    /\ dlg' = NoDialog /\ loc' = NoLocals /\ result' = NoResult
    /\ \E v \in {validate_inputs(paths, data_type)} :
       /\ sample_ID' = SampleIdAfter(v, title)
       /\ IF v # ""
          THEN /\ Finish([pc |-> "ret_validate", raised |-> "", written |-> <<>>,
                          status |-> v])
               /\ fr_pc' = "idle" /\ UNCHANGED n_frames
               /\ files_read' = {} /\ UNCHANGED title
          ELSE IF data_type = "bsl"
          THEN IF ex.kind = "raise"
               THEN /\ Finish(ExportBsl(<<>>, TRUE))
                    /\ fr_pc' = "idle" /\ UNCHANGED n_frames
                    /\ files_read' = {"iq"} /\ UNCHANGED title
               ELSE IF ex.n > 1
               THEN /\ cv_pc' = "dialog" /\ fr_pc' = "asking" /\ n_frames' = ex.n
                    /\ cv_raised' = "" /\ written' = <<>> /\ status' = ""
                    /\ files_read' = {"iq"} /\ UNCHANGED title
               ELSE /\ Finish(ExportBsl(<<0>>, write_fails))
                    /\ fr_pc' = "idle" /\ n_frames' = ex.n
                    /\ files_read' = {"iq"} /\ UNCHANGED title
          ELSE \E e \in {Extract(ex)} :
               IF e.msg # ""
               THEN /\ Finish([pc |-> "ret_except", raised |-> "", written |-> <<>>,
                               status |-> e.msg])
                    /\ fr_pc' = "idle" /\ UNCHANGED n_frames
                    /\ files_read' = e.read /\ UNCHANGED title
               ELSE IF e.n > 3
               THEN /\ cv_pc' = "dialog" /\ fr_pc' = "asking" /\ n_frames' = e.n
                    /\ cv_raised' = "" /\ written' = <<>> /\ status' = ""
                    /\ files_read' = e.read /\ UNCHANGED title
               ELSE /\ Finish(Export(<<0>>, TRUE, e.n, write_fails))
                    /\ fr_pc' = "idle" /\ n_frames' = e.n
                    /\ files_read' = e.read /\ title' = TitleForMetadata(title)
    /\ UNCHANGED data_type
    /\ UNCHANGED <<dmvars, rnvars, plvars, pbvars, asvars, csvars, uivars>>

\* on_convert after ask_frame_range has returned params
on_convert_resume(write_fails) ==
    /\ cv_pc = "dialog"
    /\ fr_pc \in {"returned", "cancelled"}
    /\ IF data_type = "bsl"
       THEN Finish(ExportBsl(result.frames, write_fails)) /\ UNCHANGED title
       ELSE IF result.frames = <<>>
       THEN /\ Finish([pc |-> "ret_cancel", raised |-> "", written |-> <<>>,
                       status |-> status])
            /\ UNCHANGED title
       ELSE /\ Finish(Export(result.frames, result.file, n_frames, write_fails))
            /\ title' = TitleForMetadata(title)
    /\ UNCHANGED <<cv_call, files_read, sample_ID>>
    /\ UNCHANGED <<data_type, fr_pc, n_frames, dlg, loc, result>>
    /\ UNCHANGED <<dmvars, rnvars, plvars, pbvars, asvars, csvars, uivars>>

\* the titles typed into the metadata section
Titles == {None, Some("T")}

\* the texts typed into the frame dialog that on_convert opens
ConvTexts == { <<>>, <<"0">>, <<"2">>, <<"5">>, <<"9">> }

CvNext ==
    \/ \E dtype \in DataTypes : datatype_changed(dtype)
    \/ \E path \in {"", "q.txt"} : q_input_SetPath(path)
    \/ \E value \in Titles : metadata_changed(value)
    \/ \E paths \in Paths, ex \in Extractions(data_type), write_fails \in BOOLEAN :
          on_convert(paths, ex, write_fails)
    \/ \E first, last, inc \in ConvTexts, single \in BOOLEAN :
          cv_pc = "dialog" /\ ShowModalOK(first, last, inc, single)
    \/ cv_pc = "dialog" /\ ShowModalCancel
    \/ \E write_fails \in BOOLEAN : on_convert_resume(write_fails)

SpecConvert == Init /\ [][CvNext]_vars

\* C15 (as claimed): no exception propagates out of on_convert; every error
\* ends in a return with a status message.
C15_NoErrorPropagates ==
    cv_pc # "raised" /\ cv_raised = ""

\* the frames held by the files written, in the order written
RECURSIVE C20_Exported(_)
C20_Exported(files) ==
    IF files = <<>> THEN <<>>
    ELSE Head(files).frames \o C20_Exported(Tail(files))

\* C20 (as claimed): for ascii and otoko input that was read, no dialog is
\* shown for at most 3 frames and frame 0 is exported; for more frames the
\* dialog is shown and the frames it returned are exported; after a cancel
\* no file is written. A failure of the writer itself is left aside.
C20_FramesExported ==
    (data_type # "bsl" /\ cv_raised # "IOError") =>
        /\ (cv_pc \in {"ret_end", "raised"} /\ n_frames <= 3) =>
              /\ fr_pc = "idle"
              /\ C20_Exported(written) = <<0>>
        /\ (cv_pc \in {"ret_end", "raised"} /\ n_frames > 3) =>
              /\ fr_pc = "returned"
              /\ C20_Exported(written) = result.frames
        /\ (cv_pc \in {"ret_end", "raised", "ret_cancel"} /\ fr_pc = "cancelled") =>
              /\ cv_pc = "ret_cancel"
              /\ written = <<>>

-----------------------------------------------------------------------------
(* Frame of DataManager.append_theory *)

\* C25: append_theory(data_id, theory) changes nothing when data_id is not
\* registered; when it is, the two dictionaries keep their keys and their
\* objects, every DataState keeps its dataset, and only the DataState of
\* data_id gains the theory.
C25_AppendTheoryFrame ==
    [][ call'.op = "append_theory" =>
          /\ stored_data' = stored_data
          /\ _selected_data' = _selected_data
          /\ has_selected' = has_selected
          /\ DOMAIN heap' = DOMAIN heap
          /\ call'.data_id \notin DOMAIN stored_data => heap' = heap
          /\ call'.data_id \in DOMAIN stored_data =>
                /\ \A r \in DOMAIN heap :
                      /\ heap'[r].data = heap[r].data
                      /\ r # stored_data[call'.data_id] => heap'[r] = heap[r]
                /\ heap'[stored_data[call'.data_id]].theory_list =
                      heap[stored_data[call'.data_id]].theory_list \cup {call'.theory}
                /\ \A id \in (DOMAIN stored_data) \ {call'.data_id} :
                      heap'[stored_data[id]] = heap[stored_data[id]]
                /\ \A id \in (DOMAIN _selected_data) \ {call'.data_id} :
                      heap'[_selected_data[id]] = heap[_selected_data[id]] ]_vars

\* C25 witness: with two datasets registered and selected, append_theory
\* gave a theory to the first and left the second without one
C25_Witness ==
    /\ call.op = "append_theory"
    /\ call.data_id = 1
    /\ DOMAIN stored_data = {1, 2}
    /\ DOMAIN _selected_data = {1, 2}
    /\ heap[stored_data[1]].theory_list = {"th1"}
    /\ heap[stored_data[2]].theory_list = {}

-----------------------------------------------------------------------------
(* ConverterPanel.convert_to_cansas *)

MaxFrameData == 2   \* most Data1D objects passed to convert_to_cansas

\* the frames the Data1D objects are made from
FrameIds == 0..2

\* output names: with one extension, without one, with the extension
\* twice, and with a dot in the directory only
OutputNames == { <<"o", ".", "x">>, <<"o">>, <<"o", ".", "x", ".", "x">>,
                 <<"d", ".", "r", "/", "o">> }

convert_to_cansas_call(frame_data, filename, single_file) ==
    /\ cansas_call' = [frame_data |-> frame_data, filename |-> filename,
                       single_file |-> single_file]
    /\ cansas_written' = convert_to_cansas(frame_data, filename, single_file)
    /\ UNCHANGED <<dmvars, rnvars, plvars, frvars, pbvars, asvars, cvvars, uivars>>

CsNext == \E frame_data \in SeqsUpTo(FrameIds, MaxFrameData),
             filename \in OutputNames, single_file \in BOOLEAN :
              convert_to_cansas_call(frame_data, filename, single_file)

SpecCansas == Init /\ [][CsNext]_vars

\* the extension of a file name: the text from the last "." of its last
\* path component on, nothing when that component has no "."
C23_Ext(filename) == splitext_ext(basename(filename))

\* the file name without its extension
C23_Stem(filename) == Prefix(filename, Len(filename) - Len(C23_Ext(filename)))

\* C23 (as claimed): with single_file one write of all frames to filename;
\* without it one write per element of frame_data, holding that one frame,
\* to pairwise distinct names made of the filename without its extension,
\* the position 0, 1, 2, ... and the extension.
C23_OneWritePerFrame ==
    LET c == cansas_call
        w == cansas_written
    IN  /\ (c.filename # <<>> /\ c.single_file) =>
              w = <<[f_name |-> c.filename, frames |-> c.frame_data]>>
        /\ (c.filename # <<>> /\ ~c.single_file) =>
              /\ Len(w) = Len(c.frame_data)
              /\ \A i \in 1..Len(w) :
                    /\ w[i].frames = <<c.frame_data[i]>>
                    /\ w[i].f_name = C23_Stem(c.filename) \o str(i - 1)
                                        \o C23_Ext(c.filename)
              /\ \A i, j \in 1..Len(w) : i # j => w[i].f_name # w[j].f_name

-----------------------------------------------------------------------------
(* Properties of on_convert and datatype_changed *)

\* on_convert has returned or raised
C21_Ended == cv_pc \notin {"idle", "dialog"}

\* C21 (as claimed): "Conversion completed." is posted only when a file was
\* written in the same invocation, and never after a cancelled dialog or
\* an error.
C21_CompletedMeansWritten ==
    (C21_Ended /\ status = "Conversion completed.") =>
        /\ written # <<>>
        /\ fr_pc # "cancelled"
        /\ cv_pc \notin {"ret_validate", "ret_except", "raised"}

\* a required path is empty: the message that names it, "" when none is
C22_Missing(paths, dt) ==
    IF ~paths.q /\ dt # "bsl" THEN "You must select a Q Axis input file."
    ELSE IF ~paths.iq THEN "You must select an Intensity input file."
    ELSE IF ~paths.output THEN "You must select adestination for the converted file."
    ELSE ""

\* a step that is a call of on_convert
C22_OnConvertStep ==
    /\ cv_pc # "dialog"
    /\ cv_pc' # "idle"
    /\ data_type' = data_type
    /\ <<radio_btn, q_path>>' = <<radio_btn, q_path>>
    /\ <<cv_pc, cv_call, status, written, files_read, sample_ID, fr_pc, title>>'
          # <<cv_pc, cv_call, status, written, files_read, sample_ID, fr_pc, title>>
    /\ ~ (title' # title /\ UNCHANGED <<cv_pc, cv_call, status, written, files_read>>)

\* C22: when a required path is empty on_convert posts the message naming
\* it and returns: it opens no input, writes no file, shows no dialog and
\* leaves title and sample.ID alone; it goes past validate_inputs only when
\* the intensity and output paths are set and, unless the data type is
\* bsl, the Q-axis path too.
C22_NothingBeforeValidation ==
    [][ C22_OnConvertStep =>
          IF C22_Missing(cv_call'.paths, data_type) # ""
          THEN /\ cv_pc' = "ret_validate"
               /\ status' = C22_Missing(cv_call'.paths, data_type)
               /\ files_read' = {}
               /\ written' = <<>>
               /\ fr_pc' = "idle"
               /\ sample_ID' = sample_ID
               /\ title' = title
               /\ cv_raised' = ""
          ELSE /\ cv_pc' # "ret_validate"
               /\ sample_ID' = title ]_vars

\* C22 witness: with a title typed in and the output path empty, on_convert
\* returned from the validation and sample.ID still has its first value
C22_Witness ==
    /\ cv_pc = "ret_validate"
    /\ cv_call.paths = [q |-> TRUE, iq |-> TRUE, output |-> FALSE]
    /\ title = Some("T")
    /\ sample_ID = Some("")
    /\ status = "You must select adestination for the converted file."

\* C24: data_type is the name of the selected radio button; with bsl the
\* Q-axis path is empty and the Q-axis input, the radiation input and the
\* metadata section are disabled; with ascii or otoko all three are enabled.
C24_PanelFollowsDataType ==
    /\ data_type = radio_btn
    /\ data_type = "bsl" =>
          /\ q_path = ""
          /\ ~q_enabled /\ ~radiation_enabled /\ ~metadata_enabled
    /\ data_type \in {"ascii", "otoko"} =>
          q_enabled /\ radiation_enabled /\ metadata_enabled

\* C24 witness: bsl was selected after a Q-axis file had been chosen and
\* used in a conversion
C24_Witness ==
    /\ data_type = "bsl"
    /\ q_path = ""
    /\ cv_call.paths.q
    /\ ~q_enabled

\* C26: with an OTOKO Q-axis file of several frames on_convert returns
\* through its except clause: an error status is posted, nothing is
\* written, "Conversion completed." is not posted and nothing is raised.
C26_MultiFrameQAborts ==
    (/\ C21_Ended
     /\ cv_call.ex.kind = "otoko"
     /\ cv_call.ex.q_frames > 1
     /\ C22_Missing(cv_call.paths, "otoko") = "") =>
        /\ cv_pc = "ret_except"
        /\ status \notin {"", "Conversion completed."}
        /\ written = <<>>
        /\ cv_raised = ""
        /\ fr_pc = "idle"

\* C26 witness: an OTOKO conversion with two Q frames and ten intensity
\* frames ended in the except clause
C26_Witness ==
    /\ cv_pc = "ret_except"
    /\ cv_call.ex.kind = "otoko"
    /\ cv_call.ex.q_frames = 2
    /\ cv_call.ex.n = MaxNFrames
    /\ status = "'NoneType' object is not iterable"

====
